---- MODULE Spec2Model ----
(***************************************************************************)
(* A model of buttplug-rs: the Lovense vendor protocol                      *)
(* (devices/protocols/lovense.rs) behind the ButtplugProtocol trait         *)
(* (devices/protocol.rs), and the message model (core/messages.rs) with     *)
(* the accessors generated by buttplug_derive.                              *)
(***************************************************************************)
EXTENDS Integers, Sequences, FiniteSets, TLC

\* ------------------------------------------------------------------ bounds
\* Command ids are u32; the model draws them from 0..MaxId.
MaxId == 1
\* Writes a device handle records before the model stops issuing vibrates.
MaxWrites == 2

Ids == 0..MaxId
\* The callers that issue commands concurrently, and the connected devices
\* (device_index values); one protocol instance is bound to each device.
Tasks == {"t1", "t2"}
Devices == {0, 1}

VARIABLES
  initialized,  \* [Devices -> BOOLEAN]: initialize() has completed on the instance
  pc,           \* [Tasks -> position of the caller in its parse_message call]
  cmd,          \* [Tasks -> the device command the caller passes]
  raw,          \* [Tasks -> the local `msg` (RawWriteCmd) of handle_vibrate_cmd]
  wres,         \* [Tasks -> outcome of the call's write_value: none / ok / failed]
  reply,        \* [Tasks -> the Result parse_message returned]
  writes,       \* [Devices -> sequence of RawWriteCmd the device handle received]
  inst          \* [Devices -> the LovenseProtocol instance: its receiver and
                \*  sender, what was sent on the sender, how many were received]

protoVars == <<initialized, pc, cmd, raw, wres, reply, writes, inst>>

VARIABLES
  msgv,         \* the message under test, as a ButtplugMessageUnion value
  hist,         \* the operation that produced msgv, with its argument; for set_id
                \* also the value it was applied to
  out           \* what the last operation returned, when it is not the
                \* message held: a conversion's result, a text, a panic

msgVars == <<msgv, hist, out>>

VARIABLES
  scan_pc,      \* position of start_scanning: "recv", "for", "panicked",
                \* "returned"
  sending,      \* the number of spawned tasks that have yet to send
  chan,         \* the values sent on the channel and not yet received
  peripherals,  \* [Addrs -> the peripheral the adapter knows, or NoPeripheral]
  todo,         \* the rest of the central.peripherals() list being walked
  tried_names,  \* the local Vec<String> tried_names
  lookups,      \* the names passed to find_protocol, in order
  connects,     \* the names of the peripherals connect() was called on, in order
  scan_calls    \* what a stop_scanning and an is_scanning call returned, with
                \* the lookups made and the position of the loop at the call

scanVars ==
  <<scan_pc, sending, chan, peripherals, todo, tried_names, lookups, connects,
    scan_calls>>
vars == <<initialized, pc, cmd, raw, wres, reply, writes, inst, msgv, hist, out,
          scan_pc, sending, chan, peripherals, todo, tried_names, lookups,
          connects, scan_calls>>

\* ------------------------------------------------------- message model
\* #[derive(ButtplugMessage)]: get_id returns the id field.
get_id(msg) == msg.id

\* #[derive(ButtplugMessage)]: set_id overwrites the id field only.
set_id(msg, id) == [msg EXCEPT !.id = id]

\* messages::Ok::new(id)
Ok_new(id) == [id |-> id]

\* Endpoint::Tx, the fixed logical channel of the Lovense write.
EndpointTx == "tx"

\* "Vibrate:20;".as_bytes().to_vec()
VibrateBytes == <<86, 105, 98, 114, 97, 116, 101, 58, 50, 48, 59>>

\* RawWriteCmd::new: the id is fixed to 1.
RawWriteCmd_new(device_index, endpoint, data, write_with_response) ==
  [id |-> 1, device_index |-> device_index, endpoint |-> endpoint,
   data |-> data, write_with_response |-> write_with_response]

\* ----------------------------------------------- constructors and Default
\* Values the bounded checks draw message fields from.
DeviceIndexes == {0, 1}
Texts == {"", "a"}
Speeds == {0, 1}
LogLevels == {"Off", "Fatal", "Error", "Warn", "Info", "Debug", "Trace"}
ErrorCodes ==
  {"ErrorUnknown", "ErrorHandshake", "ErrorPing", "ErrorMessage", "ErrorDevice"}

\* Error::new: the id is fixed to 0.
Error_new(error_code, error_message) ==
  [id |-> 0, error_code |-> error_code, error_message |-> error_message]

\* impl Default for Ping / StartScanning / StopScanning / RequestDeviceList:
\* written by hand, with id 1.
Ping_default == [id |-> 1]
StartScanning_default == [id |-> 1]
StopScanning_default == [id |-> 1]
RequestDeviceList_default == [id |-> 1]

\* #[derive(Default)]: every field takes its type's default, so id is 0.
Ok_default == [id |-> 0]
Test_default == [id |-> 0, test_string |-> ""]
DeviceList_default == [id |-> 0, devices |-> <<>>]
DeviceAdded_default ==
  [id |-> 0, device_index |-> 0, device_name |-> "", device_messages |-> <<>>]
DeviceRemoved_default == [id |-> 0, device_index |-> 0]
ScanningFinished_default == [id |-> 0]
RequestServerInfo_default == [id |-> 0, client_name |-> "", message_version |-> 0]
ServerInfo_default ==
  [id |-> 0, major_version |-> 0, minor_version |-> 0, build_version |-> 0,
   message_version |-> 0, max_ping_time |-> 0, server_name |-> ""]
StopDeviceCmd_default == [id |-> 0, device_index |-> 0]
StopAllDevices_default == [id |-> 0]
VibrateCmd_default == [id |-> 0, device_index |-> 0, speeds |-> <<>>]
LinearCmd_default == [id |-> 0, device_index |-> 0, vectors |-> <<>>]
RotateCmd_default == [id |-> 0, device_index |-> 0, rotations |-> <<>>]
FleshlightLaunchFW12Cmd_default ==
  [id |-> 0, device_index |-> 0, position |-> 0, speed |-> 0]
VorzeA10CycloneCmd_default ==
  [id |-> 0, device_index |-> 0, speed |-> 0, clockwise |-> FALSE]
SingleMotorVibrateCmd_default == [id |-> 0, device_index |-> 0, speed |-> 0]

\* The constructors: each fixes the id (1 for requests and commands, 0 for
\* ServerInfo and Log) and stores its arguments.
Test_new(test) == [id |-> 1, test_string |-> test]
RequestServerInfo_new(client_name, message_version) ==
  [id |-> 1, client_name |-> client_name, message_version |-> message_version]
ServerInfo_new(server_name, message_version, max_ping_time) ==
  [id |-> 0, major_version |-> 0, minor_version |-> 0, build_version |-> 0,
   message_version |-> message_version, max_ping_time |-> max_ping_time,
   server_name |-> server_name]
RequestLog_new(log_level) == [id |-> 1, log_level |-> log_level]
Log_new(log_level, log_message) ==
  [id |-> 0, log_level |-> log_level, log_message |-> log_message]
StopDeviceCmd_new(device_index) == [id |-> 1, device_index |-> device_index]
VibrateSubcommand_new(index, speed) == [index |-> index, speed |-> speed]
VibrateCmd_new(device_index, speeds) ==
  [id |-> 1, device_index |-> device_index, speeds |-> speeds]
VectorSubcommand_new(index, duration, position) ==
  [index |-> index, duration |-> duration, position |-> position]
LinearCmd_new(device_index, vectors) ==
  [id |-> 1, device_index |-> device_index, vectors |-> vectors]
RotationSubcommand_new(index, speed, clockwise) ==
  [index |-> index, speed |-> speed, clockwise |-> clockwise]
RotateCmd_new(device_index, rotations) ==
  [id |-> 1, device_index |-> device_index, rotations |-> rotations]
FleshlightLaunchFW12Cmd_new(device_index, position, speed) ==
  [id |-> 1, device_index |-> device_index, position |-> position, speed |-> speed]
LovenseCmd_new(device_index, command) ==
  [id |-> 1, device_index |-> device_index, command |-> command]
KiirooCmd_new(device_index, command) ==
  [id |-> 1, device_index |-> device_index, command |-> command]
VorzeA10CycloneCmd_new(device_index, speed, clockwise) ==
  [id |-> 1, device_index |-> device_index, speed |-> speed, clockwise |-> clockwise]
SingleMotorVibrateCmd_new(device_index, speed) ==
  [id |-> 1, device_index |-> device_index, speed |-> speed]
RawReadCmd_new(device_index, endpoint, expected_length, wait_for_data) ==
  [id |-> 1, device_index |-> device_index, endpoint |-> endpoint,
   expected_length |-> expected_length, wait_for_data |-> wait_for_data]
RawReading_new(device_index, endpoint, data) ==
  [id |-> 1, device_index |-> device_index, endpoint |-> endpoint, data |-> data]

\* Option<T>.
None == [some |-> FALSE]
Some(x) == [some |-> TRUE, v |-> x]

\* MessageAttributes values: every field None, and one with fields set.
MessageAttributesSet ==
  {[feature_count |-> None, step_count |-> None, endpoints |-> None,
    max_duration |-> None, patterns |-> None, actuator_type |-> None],
   [feature_count |-> Some(1), step_count |-> Some(<<20>>),
    endpoints |-> Some(<<EndpointTx>>), max_duration |-> None,
    patterns |-> Some(<<<<"a">>>>), actuator_type |-> Some(<<"a">>)]}

\* HashMap<String, MessageAttributes>: a function from its keys; <<>> is the
\* empty map.
DeviceMessagesSet ==
  {<<>>} \cup {[k \in {"VibrateCmd"} |-> a] : a \in MessageAttributesSet}

\* DeviceAdded values: the id is set by set_id, the other fields are public.
DeviceAddeds ==
  [id : Ids, device_index : DeviceIndexes, device_name : Texts,
   device_messages : DeviceMessagesSet]

\* impl From<&DeviceAdded> for DeviceMessageInfo
DeviceMessageInfo_from_mut(device_added) ==
  [device_index |-> device_added.id,
   device_name |-> device_added.device_name,
   device_messages |-> device_added.device_messages]
DeviceMessageInfo_from(device_added) ==
  [device_index |-> device_added.device_index,
   device_name |-> device_added.device_name,
   device_messages |-> device_added.device_messages]

\* The variants of ButtplugMessageUnion.
MessageVariants ==
  {"Ok", "Error", "Ping", "Test", "RequestLog", "Log", "RequestServerInfo",
   "ServerInfo", "DeviceList", "DeviceAdded", "DeviceRemoved", "StartScanning",
   "StopScanning", "ScanningFinished", "RequestDeviceList", "VibrateCmd",
   "LinearCmd", "RotateCmd", "FleshlightLaunchFW12Cmd", "LovenseCmd",
   "KiirooCmd", "VorzeA10CycloneCmd", "SingleMotorVibrateCmd", "RawWriteCmd",
   "RawReadCmd", "RawReading", "StopDeviceCmd", "StopAllDevices"}

\* #[derive(ButtplugMessage)]: as_union wraps the message in its own variant.
as_union(variant, msg) == [variant |-> variant, msg |-> msg]

\* ButtplugMessageUnion::get_id: one arm per variant, each reading msg.id.
union_get_id(u) ==
  CASE u.variant = "Ok" -> u.msg.id
    [] u.variant = "Error" -> u.msg.id
    [] u.variant = "Log" -> u.msg.id
    [] u.variant = "RequestLog" -> u.msg.id
    [] u.variant = "Ping" -> u.msg.id
    [] u.variant = "Test" -> u.msg.id
    [] u.variant = "RequestServerInfo" -> u.msg.id
    [] u.variant = "ServerInfo" -> u.msg.id
    [] u.variant = "DeviceList" -> u.msg.id
    [] u.variant = "DeviceAdded" -> u.msg.id
    [] u.variant = "DeviceRemoved" -> u.msg.id
    [] u.variant = "StartScanning" -> u.msg.id
    [] u.variant = "StopScanning" -> u.msg.id
    [] u.variant = "ScanningFinished" -> u.msg.id
    [] u.variant = "RequestDeviceList" -> u.msg.id
    [] u.variant = "VibrateCmd" -> u.msg.id
    [] u.variant = "LinearCmd" -> u.msg.id
    [] u.variant = "RotateCmd" -> u.msg.id
    [] u.variant = "FleshlightLaunchFW12Cmd" -> u.msg.id
    [] u.variant = "LovenseCmd" -> u.msg.id
    [] u.variant = "KiirooCmd" -> u.msg.id
    [] u.variant = "VorzeA10CycloneCmd" -> u.msg.id
    [] u.variant = "SingleMotorVibrateCmd" -> u.msg.id
    [] u.variant = "RawWriteCmd" -> u.msg.id
    [] u.variant = "RawReadCmd" -> u.msg.id
    [] u.variant = "RawReading" -> u.msg.id
    [] u.variant = "StopDeviceCmd" -> u.msg.id
    [] u.variant = "StopAllDevices" -> u.msg.id

\* ButtplugMessageUnion::set_id: one arm per variant, each calling the
\* wrapped message's set_id.
union_set_id_mut(u, id) ==
  IF u.variant = "StopAllDevices" THEN u ELSE [u EXCEPT !.msg = set_id(u.msg, id)]
union_set_id(u, id) ==
  CASE u.variant = "Ok" -> [u EXCEPT !.msg = set_id(u.msg, id)]
    [] u.variant = "Error" -> [u EXCEPT !.msg = set_id(u.msg, id)]
    [] u.variant = "Log" -> [u EXCEPT !.msg = set_id(u.msg, id)]
    [] u.variant = "RequestLog" -> [u EXCEPT !.msg = set_id(u.msg, id)]
    [] u.variant = "Ping" -> [u EXCEPT !.msg = set_id(u.msg, id)]
    [] u.variant = "Test" -> [u EXCEPT !.msg = set_id(u.msg, id)]
    [] u.variant = "RequestServerInfo" -> [u EXCEPT !.msg = set_id(u.msg, id)]
    [] u.variant = "ServerInfo" -> [u EXCEPT !.msg = set_id(u.msg, id)]
    [] u.variant = "DeviceList" -> [u EXCEPT !.msg = set_id(u.msg, id)]
    [] u.variant = "DeviceAdded" -> [u EXCEPT !.msg = set_id(u.msg, id)]
    [] u.variant = "DeviceRemoved" -> [u EXCEPT !.msg = set_id(u.msg, id)]
    [] u.variant = "StartScanning" -> [u EXCEPT !.msg = set_id(u.msg, id)]
    [] u.variant = "StopScanning" -> [u EXCEPT !.msg = set_id(u.msg, id)]
    [] u.variant = "ScanningFinished" -> [u EXCEPT !.msg = set_id(u.msg, id)]
    [] u.variant = "RequestDeviceList" -> [u EXCEPT !.msg = set_id(u.msg, id)]
    [] u.variant = "VibrateCmd" -> [u EXCEPT !.msg = set_id(u.msg, id)]
    [] u.variant = "LinearCmd" -> [u EXCEPT !.msg = set_id(u.msg, id)]
    [] u.variant = "RotateCmd" -> [u EXCEPT !.msg = set_id(u.msg, id)]
    [] u.variant = "FleshlightLaunchFW12Cmd" -> [u EXCEPT !.msg = set_id(u.msg, id)]
    [] u.variant = "LovenseCmd" -> [u EXCEPT !.msg = set_id(u.msg, id)]
    [] u.variant = "KiirooCmd" -> [u EXCEPT !.msg = set_id(u.msg, id)]
    [] u.variant = "VorzeA10CycloneCmd" -> [u EXCEPT !.msg = set_id(u.msg, id)]
    [] u.variant = "SingleMotorVibrateCmd" -> [u EXCEPT !.msg = set_id(u.msg, id)]
    [] u.variant = "RawWriteCmd" -> [u EXCEPT !.msg = set_id(u.msg, id)]
    [] u.variant = "RawReadCmd" -> [u EXCEPT !.msg = set_id(u.msg, id)]
    [] u.variant = "RawReading" -> [u EXCEPT !.msg = set_id(u.msg, id)]
    [] u.variant = "StopDeviceCmd" -> [u EXCEPT !.msg = set_id(u.msg, id)]
    [] u.variant = "StopAllDevices" -> [u EXCEPT !.msg = set_id(u.msg, id)]

\* The five variants of ButtplugError, each holding an error with a message.
\* ------------------------------------------------ the JSON wire form (serde)
\* An f64 that is not finite; the finite f64 values of the model are whole
\* numbers.
NaN == -1

\* The types of the message fields.
T_u32 == [c |-> "u32"]
T_u8 == [c |-> "u8"]
T_f64 == [c |-> "f64"]
T_bool == [c |-> "bool"]
T_String == [c |-> "String"]
T_Words == [c |-> "Words"]
T_Endpoint == [c |-> "Endpoint"]
T_ErrorCode == [c |-> "ErrorCode"]
T_LogLevel == [c |-> "LogLevel"]
T_Vec(t) == [c |-> "vec", of |-> t]
T_Option(t) == [c |-> "opt", of |-> t]
T_HashMap(t) == [c |-> "map", of |-> t]
T_Struct(name) == [c |-> "struct", name |-> name]

\* A field: its name in the struct, its serde(rename) and its type.
Field(name, rename, ty) == [name |-> name, wire |-> rename, ty |-> ty]
IdField == Field("id", "Id", T_u32)
DeviceIndexField == Field("device_index", "DeviceIndex", T_u32)

\* The fields of every struct that derives Serialize and Deserialize, in
\* the order of declaration.
Fields(struct) ==
  CASE struct = "Error" ->
         <<IdField, Field("error_code", "ErrorCode", T_ErrorCode),
           Field("error_message", "ErrorMessage", T_Words)>>
    [] struct = "Test" -> <<IdField, Field("test_string", "TestString", T_String)>>
    [] struct = "MessageAttributes" ->
         <<Field("feature_count", "FeatureCount", T_Option(T_u32)),
           Field("step_count", "StepCount", T_Option(T_Vec(T_u32))),
           Field("endpoints", "Endpoints", T_Option(T_Vec(T_Endpoint))),
           Field("max_duration", "MaxDuration", T_Option(T_Vec(T_u32))),
           Field("patterns", "Patterns", T_Option(T_Vec(T_Vec(T_String)))),
           Field("actuator_type", "ActuatorType", T_Option(T_Vec(T_String)))>>
    [] struct = "DeviceMessageInfo" ->
         <<DeviceIndexField, Field("device_name", "DeviceName", T_String),
           Field("device_messages", "DeviceMessages",
                 T_HashMap(T_Struct("MessageAttributes")))>>
    [] struct = "DeviceList" ->
         <<IdField, Field("devices", "Devices", T_Vec(T_Struct("DeviceMessageInfo")))>>
    [] struct = "DeviceAdded" ->
         <<IdField, DeviceIndexField, Field("device_name", "DeviceName", T_String),
           Field("device_messages", "DeviceMessages",
                 T_HashMap(T_Struct("MessageAttributes")))>>
    [] struct \in {"DeviceRemoved", "StopDeviceCmd"} -> <<IdField, DeviceIndexField>>
    [] struct = "RequestServerInfo" ->
         <<IdField, Field("client_name", "ClientName", T_String),
           Field("message_version", "MessageVersion", T_u32)>>
    [] struct = "ServerInfo" ->
         <<IdField, Field("major_version", "MajorVersion", T_u32),
           Field("minor_version", "MinorVersion", T_u32),
           Field("build_version", "BuildVersion", T_u32),
           Field("message_version", "MessageVersion", T_u32),
           Field("max_ping_time", "MaxPingTime", T_u32),
           Field("server_name", "ServerName", T_String)>>
    [] struct = "RequestLog" -> <<IdField, Field("log_level", "LogLevel", T_LogLevel)>>
    [] struct = "Log" ->
         <<IdField, Field("log_level", "LogLevel", T_LogLevel),
           Field("log_message", "LogMessage", T_String)>>
    [] struct = "VibrateSubcommand" ->
         <<Field("index", "Index", T_u32), Field("speed", "Speed", T_f64)>>
    [] struct = "VibrateCmd" ->
         <<IdField, DeviceIndexField,
           Field("speeds", "Speeds", T_Vec(T_Struct("VibrateSubcommand")))>>
    [] struct = "VectorSubcommand" ->
         <<Field("index", "Index", T_u32), Field("duration", "Duration", T_u32),
           Field("position", "Position", T_f64)>>
    [] struct = "LinearCmd" ->
         <<IdField, DeviceIndexField,
           Field("vectors", "Vectors", T_Vec(T_Struct("VectorSubcommand")))>>
    [] struct = "RotationSubcommand" ->
         <<Field("index", "Index", T_u32), Field("speed", "Speed", T_f64),
           Field("clockwise", "Clockwise", T_bool)>>
    [] struct = "RotateCmd" ->
         <<IdField, DeviceIndexField,
           Field("rotations", "Rotations", T_Vec(T_Struct("RotationSubcommand")))>>
    [] struct = "FleshlightLaunchFW12Cmd" ->
         <<IdField, DeviceIndexField, Field("position", "Position", T_u8),
           Field("speed", "Speed", T_u8)>>
    [] struct \in {"LovenseCmd", "KiirooCmd"} ->
         <<IdField, DeviceIndexField, Field("command", "Command", T_String)>>
    [] struct = "VorzeA10CycloneCmd" ->
         <<IdField, DeviceIndexField, Field("speed", "Speed", T_u32),
           Field("clockwise", "Clockwise", T_bool)>>
    [] struct = "SingleMotorVibrateCmd" ->
         <<IdField, DeviceIndexField, Field("speed", "Speed", T_f64)>>
    [] struct = "RawWriteCmd" ->
         <<IdField, DeviceIndexField, Field("endpoint", "Endpoint", T_Endpoint),
           Field("data", "Data", T_Vec(T_u8)),
           Field("write_with_response", "WriteWithResponse", T_bool)>>
    [] struct = "RawReadCmd" ->
         <<IdField, DeviceIndexField, Field("endpoint", "Endpoint", T_Endpoint),
           Field("expected_length", "ExpectedLength", T_u32),
           Field("wait_for_data", "WaitForData", T_bool)>>
    [] struct = "RawReading" ->
         <<IdField, DeviceIndexField, Field("endpoint", "Endpoint", T_Endpoint),
           Field("data", "Data", T_Vec(T_u8))>>
    [] OTHER -> <<IdField>>

\* ErrorCode is #[repr(u8)] with Serialize_repr: its discriminant.
ErrorCode_repr_mut(code) ==
  CASE code = "ErrorUnknown" -> 1
    [] code = "ErrorHandshake" -> 2
    [] code = "ErrorPing" -> 3
    [] code = "ErrorMessage" -> 4
    [] code = "ErrorDevice" -> 5
ErrorCode_repr(code) ==
  CASE code = "ErrorUnknown" -> 0
    [] code = "ErrorHandshake" -> 1
    [] code = "ErrorPing" -> 2
    [] code = "ErrorMessage" -> 3
    [] code = "ErrorDevice" -> 4

\* LogLevel derives Serialize: a unit variant is written as its name.
LogLevel_serialize_mut(level) ==
  [t |-> "num",
   v |-> CASE level = "Off" -> 0 [] level = "Fatal" -> 1 [] level = "Error" -> 2
           [] level = "Warn" -> 3 [] level = "Info" -> 4 [] level = "Debug" -> 5
           [] level = "Trace" -> 6]
LogLevel_serialize(level) == [t |-> "str", v |-> level]

\* Endpoint, as the tests show it on the wire.
Endpoints == {EndpointTx}

\* A String of the model that is held as its words: the words joined by
\* single spaces, and back.
RECURSIVE JoinWords(_)
JoinWords(words) ==
  IF words = <<>> THEN ""
  ELSE IF Len(words) = 1 THEN words[1]
  ELSE words[1] \o " " \o JoinWords(Tail(words))

RECURSIVE SplitWords(_, _, _)
SplitWords(s, i, word) ==
  IF i > Len(s) THEN (IF word = "" THEN <<>> ELSE <<word>>)
  ELSE IF SubSeq(s, i, i) = " " THEN <<word>> \o SplitWords(s, i + 1, "")
  ELSE SplitWords(s, i + 1, word \o SubSeq(s, i, i))

\* The keys of a map, in the order they are written.
RECURSIVE KeySeq(_)
KeySeq(keys) ==
  IF keys = {} THEN <<>>
  ELSE LET k == CHOOSE k \in keys : TRUE IN <<k>> \o KeySeq(keys \ {k})

\* derive(Serialize): the JSON value a value of type ty is written as. A
\* non-finite f64 is written as null (serde_json).
RECURSIVE serialize(_, _)
serialize(ty, v) ==
  CASE ty.c \in {"u32", "u8"} -> [t |-> "num", v |-> v]
    [] ty.c = "f64" -> IF v = NaN THEN [t |-> "null"] ELSE [t |-> "float", v |-> v, frac |-> 0]
    [] ty.c = "bool" -> [t |-> "bool", v |-> v]
    [] ty.c \in {"String", "Endpoint"} -> [t |-> "str", v |-> v]
    [] ty.c = "Words" -> [t |-> "str", v |-> JoinWords(v)]
    [] ty.c = "ErrorCode" -> [t |-> "num", v |-> ErrorCode_repr(v)]
    [] ty.c = "LogLevel" -> LogLevel_serialize(v)
    [] ty.c = "vec" ->
         [t |-> "arr", v |-> [i \in DOMAIN v |-> serialize(ty.of, v[i])]]
    [] ty.c = "opt" -> IF v.some THEN serialize(ty.of, v.v) ELSE [t |-> "null"]
    [] ty.c = "map" ->
         LET keys == KeySeq(DOMAIN v) IN
         [t |-> "obj",
          v |-> [i \in DOMAIN keys |->
                   [k |-> keys[i], v |-> serialize(ty.of, v[keys[i]])]]]
    [] ty.c = "struct" ->
         LET fs == Fields(ty.name) IN
         [t |-> "obj",
          v |-> [i \in DOMAIN fs |->
                   [k |-> fs[i].wire, v |-> serialize(fs[i].ty, v[fs[i].name])]]]

\* derive(Serialize) on the enum ButtplugMessageUnion: externally tagged.
union_serialize_mut(u) == serialize(T_Struct(u.variant), u.msg)
union_serialize(u) ==
  [t |-> "obj", v |-> <<[k |-> u.variant, v |-> serialize(T_Struct(u.variant), u.msg)]>>]

\* serde_json's writer: a string with `"` and `\` escaped.
RECURSIVE escape(_, _)
escape(s, i) ==
  IF i > Len(s) THEN ""
  ELSE LET ch == SubSeq(s, i, i) IN
       (IF ch \in {"\"", "\\"} THEN "\\" \o ch ELSE ch) \o escape(s, i + 1)

\* serde_json's writer: compact text, members in the order given.
RECURSIVE write(_), write_items(_, _), write_members(_, _)
write(j) ==
  CASE j.t = "num" -> ToString(j.v)
    [] j.t = "float" -> ToString(j.v) \o "." \o ToString(j.frac)
    [] j.t = "null" -> "null"
    [] j.t = "bool" -> IF j.v THEN "true" ELSE "false"
    [] j.t = "str" -> "\"" \o escape(j.v, 1) \o "\""
    [] j.t = "arr" -> "[" \o write_items(j.v, 1) \o "]"
    [] j.t = "obj" -> "{" \o write_members(j.v, 1) \o "}"
write_items(items, i) ==
  IF i > Len(items) THEN ""
  ELSE (IF i > 1 THEN "," ELSE "") \o write(items[i]) \o write_items(items, i + 1)
write_members(members, i) ==
  IF i > Len(members) THEN ""
  ELSE (IF i > 1 THEN "," ELSE "") \o "\"" \o escape(members[i].k, 1) \o "\":"
       \o write(members[i].v) \o write_members(members, i + 1)

\* serde_json::to_string(&union)
to_string(u) == write(union_serialize(u))

\* ButtplugMessage::as_protocol_json on a concrete message: serde_json
\* writes `self`, the struct.
as_protocol_json(struct, msg) == "[" \o write(serialize(T_Struct(struct), msg)) \o "]"

\* ButtplugMessage::as_protocol_json on a ButtplugMessageUnion.
union_as_protocol_json(u) == "[" \o to_string(u) \o "]"

\* serde_json's reader. A result is the value read and the position after it.
Bad == [ok |-> FALSE]
Good(v) == [ok |-> TRUE, v |-> v]
ReadTo(v, i) == [ok |-> TRUE, v |-> v, i |-> i]
Ch(s, i) == IF i >= 1 /\ i <= Len(s) THEN SubSeq(s, i, i) ELSE ""
Literal(s, i, word) ==
  i + Len(word) - 1 <= Len(s) /\ SubSeq(s, i, i + Len(word) - 1) = word
Digits == {"0", "1", "2", "3", "4", "5", "6", "7", "8", "9"}
DigitValue(ch) ==
  CASE ch = "0" -> 0 [] ch = "1" -> 1 [] ch = "2" -> 2 [] ch = "3" -> 3
    [] ch = "4" -> 4 [] ch = "5" -> 5 [] ch = "6" -> 6 [] ch = "7" -> 7
    [] ch = "8" -> 8 [] ch = "9" -> 9

RECURSIVE skip(_, _)
skip(s, i) == IF Ch(s, i) = " " THEN skip(s, i + 1) ELSE i

RECURSIVE read_digits(_, _, _)
read_digits(s, i, acc) ==
  IF Ch(s, i) \in Digits
    THEN read_digits(s, i + 1, acc * 10 + DigitValue(Ch(s, i)))
    ELSE [v |-> acc, i |-> i]

\* After the opening quote.
RECURSIVE read_string(_, _, _)
read_string(s, i, acc) ==
  LET ch == Ch(s, i) IN
  IF ch = "" THEN Bad
  ELSE IF ch = "\"" THEN ReadTo(acc, i + 1)
  ELSE IF ch = "\\"
    THEN IF Ch(s, i + 1) \in {"\"", "\\"}
           THEN read_string(s, i + 2, acc \o Ch(s, i + 1))
           ELSE Bad
  ELSE read_string(s, i + 1, acc \o ch)

RECURSIVE read_value(_, _), read_items(_, _, _), read_members(_, _, _)
read_value(s, i0) ==
  LET i == skip(s, i0)
      ch == Ch(s, i) IN
  CASE ch = "{" ->
         IF Ch(s, skip(s, i + 1)) = "}"
           THEN ReadTo([t |-> "obj", v |-> <<>>], skip(s, i + 1) + 1)
           ELSE read_members(s, i + 1, <<>>)
    [] ch = "[" ->
         IF Ch(s, skip(s, i + 1)) = "]"
           THEN ReadTo([t |-> "arr", v |-> <<>>], skip(s, i + 1) + 1)
           ELSE read_items(s, i + 1, <<>>)
    [] ch = "\"" ->
         LET r == read_string(s, i + 1, "") IN
         IF r.ok THEN ReadTo([t |-> "str", v |-> r.v], r.i) ELSE Bad
    [] ch \in Digits ->
         LET d == read_digits(s, i, 0) IN
         IF Ch(s, d.i) = "." /\ Ch(s, d.i + 1) \in Digits
           THEN LET f == read_digits(s, d.i + 1, 0) IN
                ReadTo([t |-> "float", v |-> d.v, frac |-> f.v], f.i)
           ELSE ReadTo([t |-> "num", v |-> d.v], d.i)
    [] ch = "n" /\ Literal(s, i, "null") -> ReadTo([t |-> "null"], i + 4)
    [] ch = "t" /\ Literal(s, i, "true") -> ReadTo([t |-> "bool", v |-> TRUE], i + 4)
    [] ch = "f" /\ Literal(s, i, "false") -> ReadTo([t |-> "bool", v |-> FALSE], i + 5)
    [] OTHER -> Bad
read_items(s, i, acc) ==
  LET r == read_value(s, i) IN
  IF ~r.ok THEN Bad
  ELSE LET j == skip(s, r.i) IN
       IF Ch(s, j) = "," THEN read_items(s, j + 1, Append(acc, r.v))
       ELSE IF Ch(s, j) = "]" THEN ReadTo([t |-> "arr", v |-> Append(acc, r.v)], j + 1)
       ELSE Bad
read_members(s, i0, acc) ==
  LET i == skip(s, i0) IN
  IF Ch(s, i) # "\"" THEN Bad
  ELSE LET k == read_string(s, i + 1, "") IN
       IF ~k.ok THEN Bad
       ELSE LET c == skip(s, k.i) IN
            IF Ch(s, c) # ":" THEN Bad
            ELSE LET r == read_value(s, c + 1) IN
                 IF ~r.ok THEN Bad
                 ELSE LET j == skip(s, r.i)
                          m == Append(acc, [k |-> k.v, v |-> r.v]) IN
                      IF Ch(s, j) = "," THEN read_members(s, j + 1, m)
                      ELSE IF Ch(s, j) = "}" THEN ReadTo([t |-> "obj", v |-> m], j + 1)
                      ELSE Bad

\* The whole text is one JSON value.
read(s) ==
  LET r == read_value(s, 1) IN
  IF r.ok /\ skip(s, r.i) = Len(s) + 1 THEN Good(r.v) ELSE Bad

\* Deserialize_repr on ErrorCode: the code of a discriminant, if any.
ErrorCode_from_repr(n) ==
  IF \E code \in ErrorCodes : ErrorCode_repr(code) = n
    THEN Good(CHOOSE code \in ErrorCodes : ErrorCode_repr(code) = n)
    ELSE Bad

\* derive(Deserialize) on LogLevel: the name of a unit variant.
LogLevel_deserialize(j) == IF j.t = "str" /\ j.v \in LogLevels THEN Good(j.v) ELSE Bad

\* The members of an object that carry the key.
Members(members, key) == {i \in DOMAIN members : members[i].k = key}

\* derive(Deserialize): the value of type ty a JSON value is read as. A
\* struct takes its fields by their renamed keys in any order, ignores other
\* keys, rejects a key given twice and a missing field that is no Option.
RECURSIVE deserialize(_, _)
deserialize(ty, j) ==
  CASE ty.c = "u32" -> IF j.t = "num" THEN Good(j.v) ELSE Bad
    [] ty.c = "u8" -> IF j.t = "num" /\ j.v <= 255 THEN Good(j.v) ELSE Bad
    [] ty.c = "f64" ->
         IF j.t = "num" THEN Good(j.v)
         ELSE IF j.t = "float" /\ j.frac = 0 THEN Good(j.v)
         ELSE Bad
    [] ty.c = "bool" -> IF j.t = "bool" THEN Good(j.v) ELSE Bad
    [] ty.c = "String" -> IF j.t = "str" THEN Good(j.v) ELSE Bad
    [] ty.c = "Words" -> IF j.t = "str" THEN Good(SplitWords(j.v, 1, "")) ELSE Bad
    [] ty.c = "Endpoint" -> IF j.t = "str" /\ j.v \in Endpoints THEN Good(j.v) ELSE Bad
    [] ty.c = "ErrorCode" -> IF j.t = "num" THEN ErrorCode_from_repr(j.v) ELSE Bad
    [] ty.c = "LogLevel" -> LogLevel_deserialize(j)
    [] ty.c = "vec" ->
         IF j.t # "arr" THEN Bad
         ELSE LET items == [i \in DOMAIN j.v |-> deserialize(ty.of, j.v[i])] IN
              IF \A i \in DOMAIN items : items[i].ok
                THEN Good([i \in DOMAIN items |-> items[i].v])
                ELSE Bad
    [] ty.c = "opt" ->
         IF j.t = "null" THEN Good(None)
         ELSE LET r == deserialize(ty.of, j) IN
              IF r.ok THEN Good(Some(r.v)) ELSE Bad
    [] ty.c = "map" ->
         IF j.t # "obj" THEN Bad
         ELSE LET items == [i \in DOMAIN j.v |-> deserialize(ty.of, j.v[i].v)]
                  keys == {j.v[i].k : i \in DOMAIN j.v} IN
              IF \A i \in DOMAIN items : items[i].ok
                THEN Good([k \in keys |->
                             items[CHOOSE i \in DOMAIN j.v :
                                     /\ j.v[i].k = k
                                     /\ \A i2 \in DOMAIN j.v :
                                          j.v[i2].k = k => i2 <= i].v])
                ELSE Bad
    [] ty.c = "struct" ->
         IF j.t # "obj" THEN Bad
         ELSE LET fs == Fields(ty.name)
                  at(f) == Members(j.v, f.wire)
                  field(f) ==
                    IF at(f) = {}
                      THEN (IF f.ty.c = "opt" THEN Good(None) ELSE Bad)
                      ELSE deserialize(f.ty, j.v[CHOOSE i \in at(f) : TRUE].v)
                  byName(n) == fs[CHOOSE i \in DOMAIN fs : fs[i].name = n] IN
              IF \A i \in DOMAIN fs :
                   Cardinality(at(fs[i])) <= 1 /\ field(fs[i]).ok
                THEN Good([n \in {fs[i].name : i \in DOMAIN fs} |-> field(byName(n)).v])
                ELSE Bad

\* derive(Deserialize) on the enum ButtplugMessageUnion: an object with the
\* variant's name as its one key.
union_deserialize(j) ==
  IF j.t = "obj" /\ Len(j.v) = 1 /\ j.v[1].k \in MessageVariants
    THEN LET r == deserialize(T_Struct(j.v[1].k), j.v[1].v) IN
         IF r.ok THEN Good([variant |-> j.v[1].k, msg |-> r.v]) ELSE Bad
    ELSE Bad

\* serde_json::from_str::<ButtplugMessageUnion>(text)
from_str(s) ==
  LET r == read(s) IN IF r.ok THEN union_deserialize(r.v) ELSE Bad

\* impl ButtplugMessage for ButtplugMessageUnion, as_union: it panics.
AsUnionPanicText == <<"as_union", "shouldn't", "be", "called", "on", "union.">>
union_as_union_mut(u) == [kind |-> "union", value |-> u]
union_as_union(u) == [kind |-> "panic", text |-> AsUnionPanicText]

ErrorCategories ==
  {"ButtplugDeviceError", "ButtplugMessageError", "ButtplugPingError",
   "ButtplugHandshakeError", "ButtplugUnknownError"}

\* impl From<ButtplugError> for Error: the first match picks the code, the
\* second takes the message out of the error, and Error::new builds the reply.
Error_from_mut(error) ==
  Error_new(CASE error.category = "ButtplugDeviceError" -> "ErrorDevice"
              [] error.category = "ButtplugMessageError" -> "ErrorMessage"
              [] error.category = "ButtplugPingError" -> "ErrorHandshake"
              [] error.category = "ButtplugHandshakeError" -> "ErrorHandshake"
              [] error.category = "ButtplugUnknownError" -> "ErrorUnknown",
            error.message)
Error_from(error) ==
  LET code == CASE error.category = "ButtplugDeviceError" -> "ErrorDevice"
                [] error.category = "ButtplugMessageError" -> "ErrorMessage"
                [] error.category = "ButtplugPingError" -> "ErrorPing"
                [] error.category = "ButtplugHandshakeError" -> "ErrorHandshake"
                [] error.category = "ButtplugUnknownError" -> "ErrorUnknown"
      msg == CASE error.category = "ButtplugDeviceError" -> error.message
               [] error.category = "ButtplugMessageError" -> error.message
               [] error.category = "ButtplugPingError" -> error.message
               [] error.category = "ButtplugHandshakeError" -> error.message
               [] error.category = "ButtplugUnknownError" -> error.message
  IN Error_new(code, msg)

\* The variants of ButtplugDeviceCommandMessageUnion (the device-command
\* subset of the message taxonomy).
DeviceCommandKinds ==
  {"StopDeviceCmd", "VibrateCmd", "RotateCmd", "LinearCmd",
   "FleshlightLaunchFW12Cmd", "LovenseCmd", "KiirooCmd",
   "VorzeA10CycloneCmd", "SingleMotorVibrateCmd", "RawWriteCmd",
   "RawReadCmd", "RawReading", "StopAllDevices"}

\* The variants LovenseProtocol::parse_message has an arm for.
Accepted == {"StopDeviceCmd", "VibrateCmd", "RotateCmd"}

\* The speeds of a VibrateCmd and the rotations of a RotateCmd that is passed.
CommandSpeeds == {<<>>, <<VibrateSubcommand_new(0, 1)>>}
CommandRotations == {<<>>, <<RotationSubcommand_new(0, 1, TRUE)>>}

Commands ==
  [kind : DeviceCommandKinds \ {"VibrateCmd", "RotateCmd"}, id : Ids,
   device_index : Devices]
  \cup [kind : {"VibrateCmd"}, id : Ids, device_index : Devices,
        speeds : CommandSpeeds]
  \cup [kind : {"RotateCmd"}, id : Ids, device_index : Devices,
        rotations : CommandRotations]

NoCmd == [kind |-> "None", id |-> 0, device_index |-> 0]
NoRaw == [id |-> 0, device_index |-> 0, endpoint |-> "none", data |-> <<>>,
          write_with_response |-> FALSE]
NoReply == [tag |-> "None"]

\* Ok(ButtplugMessageUnion::Ok(m))
OkResult(m) == [tag |-> "Ok", variant |-> "Ok", msg |-> m]

\* Err(ButtplugError::ButtplugDeviceError(ButtplugDeviceError::new(text)))
DeviceErr(text) == [tag |-> "Err", category |-> "ButtplugDeviceError", message |-> text]

\* "LovenseProtocol does not accept this message type.", word by word.
NotAcceptedText ==
  <<"LovenseProtocol", "does", "not", "accept", "this", "message", "type.">>

\* ------------------------------------------------- LovenseProtocol handlers
\* handle_stop_device_cmd: Ok echoing the command's id, no I/O.
handle_stop_device_cmd_mut(msg) == OkResult(Ok_new(1))
handle_stop_device_cmd(msg) == OkResult(Ok_new(get_id(msg)))

\* handle_rotate_cmd: Ok echoing the command's id, no I/O.
handle_rotate_cmd_mut(msg) == DeviceErr(<<"RotateCmd", "not", "implemented">>)
handle_rotate_cmd(msg) == OkResult(Ok_new(get_id(msg)))

\* handle_vibrate_cmd, up to the await: the local `msg` is rebound to the
\* RawWriteCmd that is handed to device.write_value.
handle_vibrate_cmd_msg_mut(msg) ==
  RawWriteCmd_new(msg.device_index, EndpointTx,
                  IF msg.speeds = <<>> THEN <<>> ELSE VibrateBytes, FALSE)
handle_vibrate_cmd_msg(msg) ==
  RawWriteCmd_new(msg.device_index, EndpointTx, VibrateBytes, FALSE)

\* handle_vibrate_cmd, after the await: the outcome of write_value is dropped
\* and `msg` is by now the RawWriteCmd, so the reply carries its id.
handle_vibrate_cmd_reply(msg, write_ok) == OkResult(Ok_new(get_id(msg)))

\* The fallback arm of parse_message's match.
parse_message_fallback_mut(msg) == OkResult(Ok_new(get_id(msg)))
parse_message_fallback(msg) == DeviceErr(NotAcceptedText)

\* What a parse_message call leaves of the instance: no arm and no handler
\* uses self.receiver or self.sender.
parse_message_self_mut(self, message) ==
  IF message.kind = "VibrateCmd"
    THEN [self EXCEPT !.sent = Append(@, handle_vibrate_cmd_msg(message))]
    ELSE self
parse_message_self(self, message) == self

\* ButtplugProtocolInitializer::new(receiver, sender): the two ends are stored.
LovenseProtocol_new(receiver, sender) ==
  [receiver |-> receiver, sender |-> sender, sent |-> <<>>, taken |-> 0]

\* parse_message and initialize take `&mut self`: a call on an instance can
\* start only while no other call on that instance is suspended.
InFlight(t) == pc[t] = "write_value"
BorrowFree_mut(d) == TRUE
BorrowFree(d) == \A u \in Tasks : ~(InFlight(u) /\ cmd[u].device_index = d)

\* Vibrates a device still has to serve (issued or suspended in the write).
PendingVibrates(d) ==
  Cardinality({u \in Tasks : /\ pc[u] \in {"issued", "write_value"}
                             /\ cmd[u].kind = "VibrateCmd"
                             /\ cmd[u].device_index = d})

\* ------------------------------------------------------------- protocol
InitProto ==
  /\ initialized = [d \in Devices |-> FALSE]
  /\ pc = [t \in Tasks |-> "idle"]
  /\ cmd = [t \in Tasks |-> NoCmd]
  /\ raw = [t \in Tasks |-> NoRaw]
  /\ wres = [t \in Tasks |-> "none"]
  /\ reply = [t \in Tasks |-> NoReply]
  /\ writes = [d \in Devices |-> <<>>]
  /\ inst = [d \in Devices |-> LovenseProtocol_new(<<"receiver", d>>, <<"sender", d>>)]

\* The device manager routes command c to the instance of c.device_index on
\* behalf of caller t; the call itself starts in ParseMessage.
Issue(t, c) ==
  /\ pc[t] = "idle"
  /\ c.kind = "VibrateCmd" =>
       Len(writes[c.device_index]) + PendingVibrates(c.device_index) < MaxWrites
  /\ pc' = [pc EXCEPT ![t] = "issued"]
  /\ cmd' = [cmd EXCEPT ![t] = c]
  /\ UNCHANGED <<initialized, raw, wres, reply, writes, inst>>

\* initialize(): an empty body; the instance has no field it could set, so
\* `initialized` only records that the call has completed (a repeated call
\* changes nothing and is left out).
Initialize(d) ==
  /\ BorrowFree(d)
  /\ ~initialized[d]
  /\ initialized' = [initialized EXCEPT ![d] = TRUE]
  /\ UNCHANGED <<pc, cmd, raw, wres, reply, writes, inst>>

\* parse_message: the match on the command variant. Stop, rotate and the
\* fallback return at once; vibrate suspends in device.write_value.
ParseMessage(t) ==
  /\ pc[t] = "issued"
  /\ BorrowFree(cmd[t].device_index)
  /\ \/ /\ cmd[t].kind = "StopDeviceCmd"
        /\ reply' = [reply EXCEPT ![t] = handle_stop_device_cmd(cmd[t])]
        /\ pc' = [pc EXCEPT ![t] = "done"]
        /\ UNCHANGED raw
     \/ /\ cmd[t].kind = "VibrateCmd"
        /\ raw' = [raw EXCEPT ![t] = handle_vibrate_cmd_msg(cmd[t])]
        /\ pc' = [pc EXCEPT ![t] = "write_value"]
        /\ UNCHANGED reply
     \/ /\ cmd[t].kind = "RotateCmd"
        /\ reply' = [reply EXCEPT ![t] = handle_rotate_cmd(cmd[t])]
        /\ pc' = [pc EXCEPT ![t] = "done"]
        /\ UNCHANGED raw
     \/ /\ cmd[t].kind \notin Accepted
        /\ reply' = [reply EXCEPT ![t] = parse_message_fallback(cmd[t])]
        /\ pc' = [pc EXCEPT ![t] = "done"]
        /\ UNCHANGED raw
  /\ inst' = [inst EXCEPT ![cmd[t].device_index] = parse_message_self(@, cmd[t])]
  /\ UNCHANGED <<initialized, cmd, wres, writes>>

\* device.write_value(&msg).await completes, with success or failure; the
\* handler then returns its reply.
WriteValueReturn(t, ok) ==
  /\ pc[t] = "write_value"
  /\ writes' = IF ok
                 THEN [writes EXCEPT ![cmd[t].device_index] = Append(@, raw[t])]
                 ELSE writes
  /\ wres' = [wres EXCEPT ![t] = IF ok THEN "ok" ELSE "failed"]
  /\ reply' = [reply EXCEPT ![t] = handle_vibrate_cmd_reply(raw[t], ok)]
  /\ pc' = [pc EXCEPT ![t] = "done"]
  /\ UNCHANGED <<initialized, cmd, raw, inst>>

\* The caller takes the reply of its finished call and delivers it.
Collect(t) ==
  /\ pc[t] = "done"
  /\ pc' = [pc EXCEPT ![t] = "idle"]
  /\ cmd' = [cmd EXCEPT ![t] = NoCmd]
  /\ raw' = [raw EXCEPT ![t] = NoRaw]
  /\ wres' = [wres EXCEPT ![t] = "none"]
  /\ reply' = [reply EXCEPT ![t] = NoReply]
  /\ UNCHANGED <<initialized, writes, inst>>

\* Nothing has been built yet: an Ok::default() stands in for the message.
NoErr == [category |-> "None", message |-> <<>>]
NoOut == [kind |-> "none"]
InitMsgIdle ==
  /\ msgv = as_union("Ok", Ok_default)
  /\ hist = [op |-> "none", id |-> 0, before |-> as_union("Ok", Ok_default),
             err |-> NoErr]
  /\ out = NoOut

\* start_scanning has not been called: nothing is known, sent or tried.
Addrs == {"a1", "a2"}
NoPeripheral == [present |-> FALSE]
InitScanIdle ==
  /\ scan_pc = "recv"
  /\ scan_calls = [stop_scanning |-> "none", stop_lookups |-> 0,
                   is_scanning |-> "none", asked_at |-> "none"]
  /\ sending = 0
  /\ chan = <<>>
  /\ peripherals = [a \in Addrs |-> NoPeripheral]
  /\ todo = <<>>
  /\ tried_names = <<>>
  /\ lookups = <<>>
  /\ connects = <<>>

Init == InitProto /\ InitMsgIdle /\ InitScanIdle

Next ==
  \/ \E t \in Tasks, c \in Commands : Issue(t, c) /\ UNCHANGED <<msgVars, scanVars>>
  \/ \E d \in Devices : Initialize(d) /\ UNCHANGED <<msgVars, scanVars>>
  \/ \E t \in Tasks : ParseMessage(t) /\ UNCHANGED <<msgVars, scanVars>>
  \/ \E t \in Tasks, ok \in BOOLEAN : WriteValueReturn(t, ok) /\ UNCHANGED <<msgVars, scanVars>>
  \/ \E t \in Tasks : Collect(t) /\ UNCHANGED <<msgVars, scanVars>>

Spec == Init /\ [][Next]_vars

\* ------------------------------------------------ claims on the protocol
\* A call of caller t starts in this step (it leaves "issued").
Starts(t) == pc[t] = "issued" /\ pc'[t] # "issued"

\* Whether the words of `text` contain `word`.
Names(text, word) == \E i \in DOMAIN text : text[i] = word

\* C1: the reply to an accepted command (StopDeviceCmd, VibrateCmd,
\* RotateCmd) with id N is ButtplugMessageUnion::Ok with id exactly N.
C1_IdEcho ==
  \A t \in Tasks :
    (pc[t] = "done" /\ cmd[t].kind \in Accepted) =>
      /\ reply[t].tag = "Ok"
      /\ reply[t].variant = "Ok"
      /\ reply[t].msg.id = cmd[t].id

\* C2: a command of any variant other than StopDeviceCmd, VibrateCmd and
\* RotateCmd is answered, in the step that takes it, by Err with a
\* Device-category error whose message names LovenseProtocol and says it does
\* not accept the message type; it is never answered Ok, and no transport
\* write is started or recorded.
C2_Rejection ==
  [][\A t \in Tasks :
       (Starts(t) /\ cmd[t].kind \notin Accepted) =>
         /\ pc'[t] = "done"
         /\ reply'[t].tag = "Err"
         /\ reply'[t].category = "ButtplugDeviceError"
         /\ Names(reply'[t].message, "LovenseProtocol")
         /\ Names(reply'[t].message, "not")
         /\ Names(reply'[t].message, "accept")
         /\ Names(reply'[t].message, "message")
         /\ wres'[t] = "none"
         /\ raw' = raw
         /\ writes' = writes]_vars

C2_Witness ==
  \E t \in Tasks :
    /\ pc[t] = "done"
    /\ cmd[t].kind = "LinearCmd"
    /\ reply[t].tag = "Err"

\* C3: a StopDeviceCmd with id N that parse_message takes is answered Ok with
\* id N in that same step, whether or not initialize has run and whatever came
\* before, and the step changes nothing of the instance or the device: so a
\* second stop finds the state the first one left and is answered the same.
C3_StopUnconditional ==
  [][\A t \in Tasks :
       (Starts(t) /\ cmd[t].kind = "StopDeviceCmd") =>
         /\ pc'[t] = "done"
         /\ reply'[t] = OkResult(Ok_new(cmd[t].id))
         /\ initialized' = initialized
         /\ raw' = raw
         /\ wres' = wres
         /\ writes' = writes]_vars

\* Two stops answered in succession on a device that was never initialized
\* and had a vibrate written before.
C3_Witness ==
  \E t, u \in Tasks :
    /\ t # u
    /\ pc[t] = "done" /\ pc[u] = "done"
    /\ cmd[t].kind = "StopDeviceCmd" /\ cmd[u].kind = "StopDeviceCmd"
    /\ cmd[t].device_index = cmd[u].device_index
    /\ cmd[t].id = 0
    /\ reply[t].tag = "Ok" /\ reply[u].tag = "Ok"
    /\ ~initialized[cmd[t].device_index]
    /\ Len(writes[cmd[t].device_index]) > 0

\* C4: no VibrateCmd or RotateCmd is taken by parse_message (answered or
\* allowed to start a write) before initialize() has completed on that
\* instance.
C4_InitGate ==
  [][\A t \in Tasks :
       (Starts(t) /\ cmd[t].kind \in {"VibrateCmd", "RotateCmd"}) =>
         initialized[cmd[t].device_index]]_vars

\* C5: when write_value fails during a VibrateCmd, parse_message returns Err
\* with a Device-category error and never Ok.
C5_FailurePropagation ==
  \A t \in Tasks :
    (pc[t] = "done" /\ wres[t] = "failed") =>
      /\ reply[t].tag = "Err"
      /\ reply[t].category = "ButtplugDeviceError"

\* C6: calls on one instance never overlap: a call starts on a device only
\* while no other call on that device is suspended in its write, and no two
\* suspended calls ever share a device.
C6_Serialized ==
  [][/\ \A t \in Tasks :
          Starts(t) =>
            \A u \in Tasks \ {t} :
              ~(InFlight(u) /\ cmd[u].device_index = cmd[t].device_index)
     /\ \A t, u \in Tasks :
          (t # u /\ InFlight(t)' /\ InFlight(u)') =>
            cmd'[t].device_index # cmd'[u].device_index]_vars

\* A second vibrate is waiting for the device whose vibrate is suspended,
\* while a call on the other device could be suspended at the same time.
C6_Witness ==
  \E t, u \in Tasks :
    /\ t # u
    /\ InFlight(t)
    /\ pc[u] = "issued"
    /\ cmd[u].kind = "VibrateCmd"
    /\ cmd[u].device_index = cmd[t].device_index

\* Calls on different devices are suspended at the same time.
C6_Interleave ==
  \E t, u \in Tasks :
    InFlight(t) /\ InFlight(u) /\ cmd[t].device_index # cmd[u].device_index

\* C7: a StopDeviceCmd issued while another command on its device is
\* suspended in the transport write can be taken and answered at once.
C7_StopPreempts ==
  \A t \in Tasks :
    (pc[t] = "issued" /\ cmd[t].kind = "StopDeviceCmd") => ENABLED ParseMessage(t)

\* C17: a call handling a VibrateCmd, whatever its speeds, hands the device
\* one RawWriteCmd (the command's device_index, endpoint Tx, the bytes of
\* "Vibrate:20;", write_with_response false) before it has a reply, and gets
\* its reply in the step in which that one write_value call returns.
C17_VibrateWrite ==
  [][\A t \in Tasks :
       /\ (Starts(t) /\ cmd[t].kind = "VibrateCmd") =>
            /\ pc'[t] = "write_value"
            /\ raw'[t].device_index = cmd[t].device_index
            /\ raw'[t].endpoint = EndpointTx
            /\ raw'[t].data = VibrateBytes
            /\ raw'[t].write_with_response = FALSE
            /\ reply'[t] = NoReply
            /\ writes' = writes
       /\ (pc[t] = "write_value" /\ pc'[t] # "write_value") =>
            /\ cmd[t].kind = "VibrateCmd"
            /\ pc'[t] = "done"
            /\ reply'[t] # NoReply
            /\ wres'[t] \in {"ok", "failed"}
            /\ writes' = IF wres'[t] = "ok"
                           THEN [writes EXCEPT ![cmd[t].device_index] =
                                   Append(@, raw[t])]
                           ELSE writes
       /\ (cmd[t].kind = "VibrateCmd" /\ reply[t] = NoReply
             /\ reply'[t] # NoReply) => pc[t] = "write_value"]_vars

\* Two vibrate calls, one with speeds and one with none, have finished on
\* one device, which has received the same bytes twice.
C17_Witness ==
  \E t, u \in Tasks :
    /\ pc[t] = "done" /\ pc[u] = "done"
    /\ cmd[t].kind = "VibrateCmd" /\ cmd[u].kind = "VibrateCmd"
    /\ cmd[t].speeds = <<>> /\ cmd[u].speeds # <<>>
    /\ cmd[t].device_index = cmd[u].device_index
    /\ wres[t] = "ok" /\ wres[u] = "ok"
    /\ Len(writes[cmd[t].device_index]) = 2
    /\ writes[cmd[t].device_index][1].data = VibrateBytes
    /\ writes[cmd[t].device_index][2].data = VibrateBytes

\* C18: a call handling a RotateCmd ends in the step that takes it, with an
\* Ok reply, and starts no write_value call: what the devices have received,
\* and every pending or finished transport write, is as before.
C18_RotateNoIO ==
  [][\A t \in Tasks :
       (Starts(t) /\ cmd[t].kind = "RotateCmd") =>
         /\ pc'[t] = "done"
         /\ reply'[t].tag = "Ok"
         /\ reply'[t].variant = "Ok"
         /\ writes' = writes
         /\ raw' = raw
         /\ wres' = wres]_vars

\* A RotateCmd with rotations has been answered on a device that had
\* received a write before.
C18_Witness ==
  \E t \in Tasks :
    /\ pc[t] = "done"
    /\ cmd[t].kind = "RotateCmd"
    /\ cmd[t].rotations # <<>>
    /\ reply[t].tag = "Ok"
    /\ raw[t] = NoRaw
    /\ Len(writes[cmd[t].device_index]) = 1

\* C19: over initialize and parse_message calls every instance keeps the
\* receiver and sender it was constructed with, with nothing sent and
\* nothing taken; a call has no outcome while it runs and exactly one (Ok or
\* Err) when it has ended; and the devices' received writes change only by
\* the one write of a call whose write_value returns, on that call's device.
C19_InstanceUnchanged ==
  [][/\ inst' = inst
     /\ \A d \in Devices :
          inst'[d] = LovenseProtocol_new(<<"receiver", d>>, <<"sender", d>>)
     /\ \A t \in Tasks :
          /\ pc'[t] \in {"issued", "write_value"} => reply'[t] = NoReply
          /\ pc'[t] = "done" => reply'[t].tag \in {"Ok", "Err"}
          /\ (pc[t] = "done" /\ pc'[t] = "done") => reply'[t] = reply[t]
     /\ writes' # writes =>
          \E t \in Tasks :
            /\ pc[t] = "write_value" /\ pc'[t] = "done"
            /\ writes' = [writes EXCEPT ![cmd[t].device_index] =
                            Append(@, raw[t])]]_vars

\* After initialize, one call on the instance has ended with a write and
\* another with an error.
C19_Witness ==
  \E t, u \in Tasks :
    /\ cmd[t].kind = "VibrateCmd" /\ pc[t] = "done" /\ wres[t] = "ok"
    /\ cmd[u].kind \notin Accepted /\ cmd[u] # NoCmd /\ pc[u] = "done"
    /\ reply[u].tag = "Err"
    /\ cmd[u].device_index = cmd[t].device_index
    /\ initialized[cmd[t].device_index]
    /\ Len(writes[cmd[t].device_index]) = 1

\* ------------------------------------------------------- the message model
\* Message texts, word by word.
ErrorTexts == {<<>>, <<"x">>, <<"Test", "Error">>, NotAcceptedText}
ButtplugErrors == [category : ErrorCategories, message : ErrorTexts]
Versions == {0, 1}
ByteVecs == {<<>>, <<0>>, VibrateBytes}

Built(variant, msgs, by) == {[variant |-> variant, msg |-> m, by |-> by] : m \in msgs}

\* Every message Default::default() builds.
BuiltByDefault ==
  {[variant |-> "Ok", msg |-> Ok_default, by |-> "default"],
   [variant |-> "Ping", msg |-> Ping_default, by |-> "default"],
   [variant |-> "Test", msg |-> Test_default, by |-> "default"],
   [variant |-> "DeviceList", msg |-> DeviceList_default, by |-> "default"],
   [variant |-> "DeviceAdded", msg |-> DeviceAdded_default, by |-> "default"],
   [variant |-> "DeviceRemoved", msg |-> DeviceRemoved_default, by |-> "default"],
   [variant |-> "StartScanning", msg |-> StartScanning_default, by |-> "default"],
   [variant |-> "StopScanning", msg |-> StopScanning_default, by |-> "default"],
   [variant |-> "ScanningFinished", msg |-> ScanningFinished_default, by |-> "default"],
   [variant |-> "RequestDeviceList", msg |-> RequestDeviceList_default, by |-> "default"],
   [variant |-> "RequestServerInfo", msg |-> RequestServerInfo_default, by |-> "default"],
   [variant |-> "ServerInfo", msg |-> ServerInfo_default, by |-> "default"],
   [variant |-> "StopDeviceCmd", msg |-> StopDeviceCmd_default, by |-> "default"],
   [variant |-> "StopAllDevices", msg |-> StopAllDevices_default, by |-> "default"],
   [variant |-> "VibrateCmd", msg |-> VibrateCmd_default, by |-> "default"],
   [variant |-> "LinearCmd", msg |-> LinearCmd_default, by |-> "default"],
   [variant |-> "RotateCmd", msg |-> RotateCmd_default, by |-> "default"],
   [variant |-> "FleshlightLaunchFW12Cmd", msg |-> FleshlightLaunchFW12Cmd_default,
    by |-> "default"],
   [variant |-> "VorzeA10CycloneCmd", msg |-> VorzeA10CycloneCmd_default,
    by |-> "default"],
   [variant |-> "SingleMotorVibrateCmd", msg |-> SingleMotorVibrateCmd_default,
    by |-> "default"]}

\* Every message a constructor that takes no id builds, over bounded arguments.
BuiltByNew ==
  Built("Error", {Error_new(c, m) : c \in ErrorCodes, m \in ErrorTexts}, "new")
  \cup Built("Test", {Test_new(x) : x \in Texts}, "new")
  \cup Built("RequestServerInfo",
             {RequestServerInfo_new(n, v) : n \in Texts, v \in Versions}, "new")
  \cup Built("ServerInfo",
             {ServerInfo_new(n, v, 0) : n \in Texts, v \in Versions}, "new")
  \cup Built("RequestLog", {RequestLog_new(l) : l \in LogLevels}, "new")
  \cup Built("Log", {Log_new(l, x) : l \in LogLevels, x \in Texts}, "new")
  \cup Built("StopDeviceCmd", {StopDeviceCmd_new(d) : d \in DeviceIndexes}, "new")
  \cup Built("VibrateCmd",
             {VibrateCmd_new(d, <<>>) : d \in DeviceIndexes}
             \cup {VibrateCmd_new(d, <<VibrateSubcommand_new(0, v)>>) :
                     d \in DeviceIndexes, v \in Speeds}, "new")
  \cup Built("LinearCmd",
             {LinearCmd_new(d, <<>>) : d \in DeviceIndexes}
             \cup {LinearCmd_new(d, <<VectorSubcommand_new(0, 1, v)>>) :
                     d \in DeviceIndexes, v \in Speeds}, "new")
  \cup Built("RotateCmd",
             {RotateCmd_new(d, <<>>) : d \in DeviceIndexes}
             \cup {RotateCmd_new(d, <<RotationSubcommand_new(0, v, b)>>) :
                     d \in DeviceIndexes, v \in Speeds, b \in BOOLEAN}, "new")
  \cup Built("FleshlightLaunchFW12Cmd",
             {FleshlightLaunchFW12Cmd_new(d, x, v) :
                d \in DeviceIndexes, x \in Speeds, v \in Speeds}, "new")
  \cup Built("LovenseCmd", {LovenseCmd_new(d, x) : d \in DeviceIndexes, x \in Texts}, "new")
  \cup Built("KiirooCmd", {KiirooCmd_new(d, x) : d \in DeviceIndexes, x \in Texts}, "new")
  \cup Built("VorzeA10CycloneCmd",
             {VorzeA10CycloneCmd_new(d, v, b) :
                d \in DeviceIndexes, v \in Speeds, b \in BOOLEAN}, "new")
  \cup Built("SingleMotorVibrateCmd",
             {SingleMotorVibrateCmd_new(d, v) : d \in DeviceIndexes, v \in Speeds}, "new")
  \cup Built("RawWriteCmd",
             {RawWriteCmd_new(d, EndpointTx, x, b) :
                d \in DeviceIndexes, x \in ByteVecs, b \in BOOLEAN}, "new")
  \cup Built("RawReadCmd",
             {RawReadCmd_new(d, EndpointTx, n, b) :
                d \in DeviceIndexes, n \in Versions, b \in BOOLEAN}, "new")
  \cup Built("RawReading",
             {RawReading_new(d, EndpointTx, x) : d \in DeviceIndexes, x \in ByteVecs},
             "new")

\* Ok::new(id) is the one constructor that is given the id.
BuiltWithId == Built("Ok", {Ok_new(i) : i \in Ids}, "new_with_id")

\* A message is built, by Default or by its constructor, and wrapped by as_union.
Build(b) ==
  /\ msgv' = as_union(b.variant, b.msg)
  /\ hist' = [op |-> b.by, id |-> 0, before |-> msgv', err |-> NoErr]
  /\ out' = NoOut

\* set_id(x) on the union holding the message.
SetId(x) ==
  /\ msgv' = union_set_id(msgv, x)
  /\ hist' = [op |-> "set_id", id |-> x, before |-> msgv, err |-> NoErr]
  /\ out' = NoOut

\* Error::from(e), wrapped by as_union.
ErrorFrom(e) ==
  /\ msgv' = as_union("Error", Error_from(e))
  /\ hist' = [op |-> "from", id |-> 0, before |-> msgv', err |-> e]
  /\ out' = NoOut

\* A DeviceAdded with its fields set.
BuiltByFields == Built("DeviceAdded", DeviceAddeds, "fields")

\* Messages that exercise the writer and the reader: a string with characters
\* to escape, and a DeviceList with a device in it.
BuiltForWire ==
  Built("Test", {Test_new("a\"b\\")}, "new")
  \cup Built("DeviceList",
             {[id |-> 0, devices |-> <<DeviceMessageInfo_from(d)>>] :
                d \in {d \in DeviceAddeds : d.id = 0 /\ d.device_index = 1}},
             "fields")

\* Commands that carry an f64 that is not finite.
BuiltNonFinite ==
  Built("VibrateCmd", {VibrateCmd_new(0, <<VibrateSubcommand_new(0, NaN)>>)}, "new")
  \cup Built("LinearCmd", {LinearCmd_new(0, <<VectorSubcommand_new(0, 1, NaN)>>)}, "new")
  \cup Built("RotateCmd",
             {RotateCmd_new(0, <<RotationSubcommand_new(0, NaN, TRUE)>>)}, "new")
  \cup Built("SingleMotorVibrateCmd", {SingleMotorVibrateCmd_new(0, NaN)}, "new")

\* The texts of the serialization tests.
OK_STR == "{\"Ok\":{\"Id\":0}}"
ERROR_STR == "{\"Error\":{\"Id\":0,\"ErrorCode\":1,\"ErrorMessage\":\"Test Error\"}}"
ENDPOINT_STR ==
  "{\"RawReading\":{\"Id\":1,\"DeviceIndex\":0,\"Endpoint\":\"tx\",\"Data\":[0]}}"

\* An Error, a RequestLog and a Log as a peer may send them, the code and
\* the level written as `code` and `level`.
ErrorText(code) ==
  "{\"Error\":{\"Id\":0,\"ErrorCode\":" \o code \o ",\"ErrorMessage\":\"Test Error\"}}"
RequestLogText(level) == "{\"RequestLog\":{\"Id\":1,\"LogLevel\":" \o level \o "}}"
LogText(level) ==
  "{\"Log\":{\"Id\":0,\"LogLevel\":" \o level \o ",\"LogMessage\":\"a\"}}"
Quoted(s) == "\"" \o s \o "\""

\* The texts received: the tests' texts, every ErrorCode and LogLevel written
\* as a number (one past the last included) and every LogLevel written as
\* its name.
WireTexts ==
  {OK_STR, ERROR_STR, ENDPOINT_STR}
  \cup {ErrorText(ToString(n)) : n \in 0..Cardinality(ErrorCodes)}
  \cup {RequestLogText(ToString(n)) : n \in 0..Cardinality(LogLevels)}
  \cup {LogText(ToString(n)) : n \in 0..Cardinality(LogLevels)}
  \cup {RequestLogText(Quoted(l)) : l \in LogLevels}
  \cup {LogText(Quoted(l)) : l \in LogLevels}

\* The operations that return a value and leave the message as it is; one
\* is applied to a message, not to the outcome of another.
ConversionOps ==
  {"to_string", "round_trip", "as_protocol_json", "union_as_protocol_json",
   "union_as_union", "info_from"}
Convertible == hist.op \notin ConversionOps

\* serde_json::to_string(&union) on the union held.
SerdeToString ==
  /\ Convertible
  /\ out' = [kind |-> "text", value |-> to_string(msgv)]
  /\ hist' = [op |-> "to_string", id |-> 0, before |-> msgv, err |-> NoErr]
  /\ UNCHANGED msgv

\* serde_json::from_str on the text to_string has just returned.
RoundTrip ==
  /\ hist.op = "to_string"
  /\ out' = [kind |-> "de", text |-> out.value, value |-> from_str(out.value)]
  /\ hist' = [op |-> "round_trip", id |-> 0, before |-> msgv, err |-> NoErr]
  /\ UNCHANGED msgv

\* serde_json::from_str on a text received; the union read, if any, is the
\* message held from then on. What is read does not depend on the message
\* held, so texts are read one after another from the start.
FromStr(text) ==
  /\ hist.op \in {"none", "from_str"}
  /\ out' = [kind |-> "de", text |-> text, value |-> from_str(text)]
  /\ msgv' = IF out'.value.ok THEN out'.value.v ELSE msgv
  /\ hist' = [op |-> "from_str", id |-> 0, before |-> msgv', err |-> NoErr]

\* as_protocol_json() on the concrete message inside the union held.
AsProtocolJson ==
  /\ Convertible
  /\ out' = [kind |-> "text", value |-> as_protocol_json(msgv.variant, msgv.msg)]
  /\ hist' = [op |-> "as_protocol_json", id |-> 0, before |-> msgv, err |-> NoErr]
  /\ UNCHANGED msgv

\* as_protocol_json() on the union held.
UnionAsProtocolJson ==
  /\ Convertible
  /\ out' = [kind |-> "text", value |-> union_as_protocol_json(msgv)]
  /\ hist' = [op |-> "union_as_protocol_json", id |-> 0, before |-> msgv,
              err |-> NoErr]
  /\ UNCHANGED msgv

\* as_union() on the concrete message b.msg, of struct b.variant, after
\* set_id(x): the union it returns is the message held from then on.
AsUnion(b, x) ==
  /\ out' = [kind |-> "union", value |-> as_union(b.variant, set_id(b.msg, x))]
  /\ msgv' = out'.value
  /\ hist' = [op |-> "as_union", id |-> x,
              before |-> [variant |-> b.variant, msg |-> set_id(b.msg, x)],
              err |-> NoErr]

\* as_union() on the ButtplugMessageUnion held.
AsUnionOnUnion ==
  /\ Convertible
  /\ out' = union_as_union(msgv)
  /\ hist' = [op |-> "union_as_union", id |-> 0, before |-> msgv, err |-> NoErr]
  /\ UNCHANGED msgv

\* DeviceMessageInfo::from(&device_added) on the DeviceAdded held; the
\* argument is a shared reference.
InfoFrom ==
  /\ msgv.variant = "DeviceAdded"
  /\ Convertible
  /\ out' = [kind |-> "info", value |-> DeviceMessageInfo_from(msgv.msg)]
  /\ hist' = [op |-> "info_from", id |-> 0, before |-> msgv, err |-> NoErr]
  /\ UNCHANGED msgv

NextMsg ==
  \/ \E b \in BuiltByFields : Build(b) /\ UNCHANGED <<protoVars, scanVars>>
  \/ \E b \in BuiltByDefault \cup BuiltByNew \cup BuiltWithId, x \in Ids :
       AsUnion(b, x) /\ UNCHANGED <<protoVars, scanVars>>
  \/ AsUnionOnUnion /\ UNCHANGED <<protoVars, scanVars>>
  \/ InfoFrom /\ UNCHANGED <<protoVars, scanVars>>
  \/ \E b \in BuiltForWire \cup BuiltNonFinite : Build(b) /\ UNCHANGED <<protoVars, scanVars>>
  \/ SerdeToString /\ UNCHANGED <<protoVars, scanVars>>
  \/ RoundTrip /\ UNCHANGED <<protoVars, scanVars>>
  \/ \E text \in WireTexts : FromStr(text) /\ UNCHANGED <<protoVars, scanVars>>
  \/ AsProtocolJson /\ UNCHANGED <<protoVars, scanVars>>
  \/ UnionAsProtocolJson /\ UNCHANGED <<protoVars, scanVars>>
  \/ \E b \in BuiltByDefault : Build(b) /\ UNCHANGED <<protoVars, scanVars>>
  \/ \E b \in BuiltByNew : Build(b) /\ UNCHANGED <<protoVars, scanVars>>
  \/ \E b \in BuiltWithId : Build(b) /\ UNCHANGED <<protoVars, scanVars>>
  \/ \E x \in Ids : SetId(x) /\ UNCHANGED <<protoVars, scanVars>>
  \/ \E e \in ButtplugErrors : ErrorFrom(e) /\ UNCHANGED <<protoVars, scanVars>>

SpecMsg == Init /\ [][NextMsg]_vars

\* ------------------------------------------- claims on the message model
\* C8: Error::from maps Device, Message, Ping, Handshake and Unknown errors to
\* ErrorDevice, ErrorMessage, ErrorPing, ErrorHandshake and ErrorUnknown,
\* copies the error's message unchanged and sets id 0; distinct categories get
\* distinct codes.
C8_ErrorMapping ==
  /\ hist.op = "from" =>
       /\ msgv.variant = "Error"
       /\ msgv.msg.id = 0
       /\ msgv.msg.error_message = hist.err.message
       /\ hist.err.category = "ButtplugDeviceError" => msgv.msg.error_code = "ErrorDevice"
       /\ hist.err.category = "ButtplugMessageError" => msgv.msg.error_code = "ErrorMessage"
       /\ hist.err.category = "ButtplugPingError" => msgv.msg.error_code = "ErrorPing"
       /\ hist.err.category = "ButtplugHandshakeError" =>
            msgv.msg.error_code = "ErrorHandshake"
       /\ hist.err.category = "ButtplugUnknownError" => msgv.msg.error_code = "ErrorUnknown"
  /\ \A e1, e2 \in ButtplugErrors :
       Error_from(e1).error_code = Error_from(e2).error_code => e1.category = e2.category

C8_Witness ==
  /\ hist.op = "from"
  /\ hist.err = [category |-> "ButtplugPingError", message |-> <<"Test", "Error">>]
  /\ msgv.msg.error_code = "ErrorPing"

\* C9: a command- or request-shaped message built by its constructor or by
\* Default has id 1, and a response- or event-shaped one has id 0.
CommandShaped ==
  {"Ping", "Test", "StartScanning", "StopScanning", "RequestDeviceList",
   "RequestServerInfo", "RequestLog", "VibrateCmd", "LinearCmd", "RotateCmd",
   "StopDeviceCmd", "StopAllDevices", "FleshlightLaunchFW12Cmd", "LovenseCmd",
   "KiirooCmd", "VorzeA10CycloneCmd", "SingleMotorVibrateCmd", "RawWriteCmd",
   "RawReadCmd"}
ResponseShaped ==
  {"Ok", "ServerInfo", "Log", "DeviceList", "DeviceAdded", "DeviceRemoved",
   "ScanningFinished"}

C9_DefaultIds ==
  hist.op \in {"new", "default"} =>
    /\ msgv.variant \in CommandShaped => get_id(msgv.msg) = 1
    /\ msgv.variant \in ResponseShaped => get_id(msgv.msg) = 0

\* C10 as stated: the union has 27 variants, and set_id(x) then get_id gives x
\* on the union and on the wrapped message, with the variant and every other
\* field kept.
IdRoundTrip ==
  /\ union_get_id(msgv) = get_id(msgv.msg)
  /\ hist.op = "set_id" =>
       /\ union_get_id(msgv) = hist.id
       /\ get_id(msgv.msg) = hist.id
       /\ msgv.variant = hist.before.variant
       /\ DOMAIN msgv.msg = DOMAIN hist.before.msg
       /\ \A f \in DOMAIN msgv.msg \ {"id"} : msgv.msg[f] = hist.before.msg[f]

C10_ClosedDispatch27 ==
  /\ Cardinality(MessageVariants) = 27
  /\ msgv.variant \in MessageVariants
  /\ IdRoundTrip

\* C10, amended: the union has 28 variants; for each of them set_id(x) then
\* get_id gives x on the union and on the wrapped message, with the variant
\* and every other field kept.
C10_ClosedDispatch ==
  /\ Cardinality(MessageVariants) = 28
  /\ msgv.variant \in MessageVariants
  /\ IdRoundTrip

C10_Witness ==
  /\ hist.op = "set_id"
  /\ msgv.variant = "StopAllDevices"
  /\ hist.id = 1
  /\ get_id(hist.before.msg) = 0
  /\ union_get_id(msgv) = 1

\* Whether a message carries an f64 that is not finite.
NonFinite(u) ==
  CASE u.variant = "VibrateCmd" ->
         \E i \in DOMAIN u.msg.speeds : u.msg.speeds[i].speed = NaN
    [] u.variant = "LinearCmd" ->
         \E i \in DOMAIN u.msg.vectors : u.msg.vectors[i].position = NaN
    [] u.variant = "RotateCmd" ->
         \E i \in DOMAIN u.msg.rotations : u.msg.rotations[i].speed = NaN
    [] u.variant = "SingleMotorVibrateCmd" -> u.msg.speed = NaN
    [] OTHER -> FALSE

\* Whether a text is an object of one member, keyed by the variant, whose
\* value is an object with capitalized keys.
Capitals ==
  {"A", "B", "C", "D", "E", "F", "G", "H", "I", "J", "K", "L", "M", "N", "O", "P",
   "Q", "R", "S", "T", "U", "V", "W", "X", "Y", "Z"}
TaggedForm(text, variant) ==
  LET r == read(text) IN
  /\ r.ok
  /\ r.v.t = "obj"
  /\ Len(r.v.v) = 1
  /\ r.v.v[1].k = variant
  /\ r.v.v[1].v.t = "obj"
  /\ \A i \in DOMAIN r.v.v[1].v.v : Head(r.v.v[1].v.v[i].k) \in Capitals
  /\ r.v.v[1].v.v[1].k = "Id"

\* The two examples of the round trip, in both directions.
RoundTripExamples ==
  /\ (hist.op = "to_string" /\ msgv = as_union("Ok", Ok_new(0))) =>
       out.value = OK_STR
  /\ (hist.op = "to_string"
       /\ msgv = as_union("RawReading", RawReading_new(0, EndpointTx, <<0>>))) =>
       out.value = ENDPOINT_STR
  /\ (hist.op = "from_str" /\ out.text = OK_STR) =>
       out.value = Good(as_union("Ok", Ok_new(0)))
  /\ (hist.op = "from_str" /\ out.text = ENDPOINT_STR) =>
       out.value = Good(as_union("RawReading", RawReading_new(0, EndpointTx, <<0>>)))

C11_Coverage ==
  /\ \A v \in MessageVariants :
       \E b \in BuiltByDefault \cup BuiltByNew \cup BuiltWithId : b.variant = v
  /\ \E b \in BuiltByNew :
       b.variant = "VibrateCmd" /\ b.msg.speeds # <<>> /\ b.msg.speeds[1].speed = 1
  /\ \E b \in BuiltForWire : b.variant = "Test" /\ Len(b.msg.test_string) = 4

\* C12: as_protocol_json, on a concrete message as on the union, returns
\* "[" + text + "]" where text is the message's tagged single-key form.
C12_Envelope ==
  hist.op \in {"as_protocol_json", "union_as_protocol_json"} =>
    /\ out.value = "[" \o to_string(msgv) \o "]"
    /\ LET r == read(out.value) IN
       /\ r.ok
       /\ r.v.t = "arr"
       /\ Len(r.v.v) = 1
       /\ r.v.v[1].t = "obj"
       /\ Len(r.v.v[1].v) = 1
       /\ r.v.v[1].v[1].k = msgv.variant

\* On the union the envelope is as stated.
C12_UnionEnvelope ==
  hist.op = "union_as_protocol_json" => out.value = "[" \o to_string(msgv) \o "]"

\* The discriminants of ErrorCode, as stated.
C13_Code(n) ==
  CASE n = 0 -> "ErrorUnknown"
    [] n = 1 -> "ErrorHandshake"
    [] n = 2 -> "ErrorPing"
    [] n = 3 -> "ErrorMessage"
    [] n = 4 -> "ErrorDevice"

\* C13: an Error is written with its ErrorCode as the discriminant 0..4;
\* each of 0..4 is read as the matching code; the test's text is read as
\* id 0, Handshake, "Test Error", and written back as the same text.
C13_ErrorCodeWire ==
  /\ (hist.op = "to_string" /\ msgv.variant = "Error") =>
       \E n \in 0..4 :
         /\ msgv.msg.error_code = C13_Code(n)
         /\ out.value =
              "{\"Error\":{\"Id\":" \o ToString(msgv.msg.id) \o ",\"ErrorCode\":"
              \o ToString(n) \o ",\"ErrorMessage\":\""
              \o JoinWords(msgv.msg.error_message) \o "\"}}"
  /\ \A n \in 0..4 :
       (hist.op = "from_str" /\ out.text = ErrorText(ToString(n))) =>
         /\ out.value.ok
         /\ msgv = as_union("Error", Error_new(C13_Code(n), <<"Test", "Error">>))
         /\ get_id(msgv.msg) = 0
         /\ to_string(msgv) = out.text
  /\ (hist.op = "from_str" /\ out.text = ERROR_STR) =>
       /\ out.value.ok
       /\ msgv.msg = [id |-> 0, error_code |-> "ErrorHandshake",
                      error_message |-> <<"Test", "Error">>]
  /\ (hist.op = "from_str" /\ out.text = ErrorText("5")) => ~out.value.ok

\* The test's text has been read.
C13_Witness ==
  /\ hist.op = "from_str"
  /\ out.text = ERROR_STR
  /\ out.value.ok
  /\ msgv.variant = "Error"
  /\ msgv.msg.error_code = "ErrorHandshake"

\* The discriminants of LogLevel, as stated.
C14_Level(n) ==
  CASE n = 0 -> "Off"
    [] n = 1 -> "Fatal"
    [] n = 2 -> "Error"
    [] n = 3 -> "Warn"
    [] n = 4 -> "Info"
    [] n = 5 -> "Debug"
    [] n = 6 -> "Trace"

\* The text of the RequestLog or Log held, its level written as `level`.
C14_Text(level) ==
  IF msgv.variant = "RequestLog"
    THEN "{\"RequestLog\":{\"Id\":" \o ToString(msgv.msg.id) \o ",\"LogLevel\":"
         \o level \o "}}"
    ELSE "{\"Log\":{\"Id\":" \o ToString(msgv.msg.id) \o ",\"LogLevel\":"
         \o level \o ",\"LogMessage\":\"" \o msgv.msg.log_message \o "\"}}"

C15_AsUnion ==
  /\ hist.op = "as_union" =>
       /\ out.kind = "union"
       /\ out.value.variant = hist.before.variant
       /\ out.value.variant \in MessageVariants
       /\ out.value.msg = hist.before.msg
       /\ union_get_id(out.value) = hist.id
       /\ get_id(out.value.msg) = hist.id
  /\ hist.op = "union_as_union" =>
       /\ out.kind = "panic"
       /\ msgv = hist.before

\* as_union has been called on the union that as_union returned for a
\* RawReading whose id had been set.
C15_Witness ==
  /\ hist.op = "union_as_union"
  /\ out.kind = "panic"
  /\ msgv.variant = "RawReading"
  /\ msgv.msg.id = 0
  /\ msgv.msg.data = <<0>>

\* Every variant is reached by as_union on a concrete message.
C15_AllVariants ==
  \A v \in MessageVariants :
    \E b \in BuiltByDefault \cup BuiltByNew \cup BuiltWithId : b.variant = v

\* C16: DeviceMessageInfo::from(&DeviceAdded) returns the DeviceAdded's
\* device_index, device_name and device_messages, the same for every id the
\* DeviceAdded could carry, and the DeviceAdded is as it was.
C16_InfoProjection ==
  hist.op = "info_from" =>
    /\ out.kind = "info"
    /\ out.value.device_index = hist.before.msg.device_index
    /\ out.value.device_name = hist.before.msg.device_name
    /\ out.value.device_messages = hist.before.msg.device_messages
    /\ DOMAIN out.value = {"device_index", "device_name", "device_messages"}
    /\ \A i \in Ids :
         DeviceMessageInfo_from(set_id(hist.before.msg, i)) = out.value
    /\ msgv = hist.before

\* The projection of a DeviceAdded whose id differs from its device_index
\* and whose map has an entry.
C16_Witness ==
  /\ hist.op = "info_from"
  /\ msgv.msg.id = 1
  /\ msgv.msg.device_index = 0
  /\ msgv.msg.device_name = "a"
  /\ DOMAIN msgv.msg.device_messages = {"VibrateCmd"}
  /\ out.value.device_messages["VibrateCmd"].feature_count = Some(1)

\* ------------------------------------------------------------- scanning
\* The most values sent or about to be sent on the channel at one time (the
\* channel itself holds ChannelCapacity).
MaxEvents == 2
ChannelCapacity == 256

\* Option<String> local names of peripherals.
LocalNames == {None, Some(""), Some("x"), Some("y")}

\* The elements of a sequence.
Range(seq) == {seq[i] : i \in DOMAIN seq}

\* name.len() > 0 && !tried_names.contains(&name)
untried_mut(name, tried) == Len(name) > 0
untried(name, tried) == Len(name) > 0 /\ name \notin Range(tried)

\* central.peripherals(): the peripherals known, in some order.
Orders(addrs) ==
  {seq \in UNION {[1..n -> addrs] : n \in 0..Cardinality(addrs)} :
     /\ Len(seq) = Cardinality(addrs)
     /\ \A i, j \in DOMAIN seq : i # j => seq[i] # seq[j]}
Present == {a \in Addrs : peripherals[a] # NoPeripheral}

\* The adapter discovers a peripheral: on_event clones the sender and spawns
\* a task that will send true.
DeviceDiscovered(a, name) ==
  /\ scan_pc \in {"recv", "for"}
  /\ peripherals[a] = NoPeripheral
  /\ sending + Len(chan) < MaxEvents
  /\ sending + Len(chan) < ChannelCapacity
  /\ peripherals' = [peripherals EXCEPT ![a] = [present |-> TRUE, name |-> name]]
  /\ sending' = sending + 1
  /\ UNCHANGED <<scan_pc, chan, todo, tried_names, lookups, connects, scan_calls>>

\* Another event: a known peripheral's properties change, or it is lost;
\* on_event does nothing.
OtherEvent(a, p) ==
  /\ scan_pc \in {"recv", "for"}
  /\ peripherals[a] # NoPeripheral
  /\ peripherals[a] # p
  /\ peripherals' = [peripherals EXCEPT ![a] = p]
  /\ UNCHANGED <<scan_pc, sending, chan, todo, tried_names, lookups, connects,
                 scan_calls>>

\* The value a spawned task sends: s.send(true)
sent_value_mut == FALSE
sent_value == TRUE

\* A spawned task runs: s.send(true).await
Send ==
  /\ sending > 0
  /\ sending' = sending - 1
  /\ chan' = Append(chan, sent_value)
  /\ UNCHANGED <<scan_pc, peripherals, todo, tried_names, lookups, connects,
                 scan_calls>>

\* while receiver.next().await.unwrap(): a value is taken; true enters the
\* body with the list central.peripherals() returns, false leaves the loop.
Receive ==
  /\ scan_pc = "recv"
  /\ chan # <<>>
  /\ chan' = Tail(chan)
  /\ IF Head(chan)
       THEN \E seq \in Orders(Present) :
              /\ todo' = seq
              /\ scan_pc' = IF seq = <<>> THEN "recv" ELSE "for"
       ELSE todo' = <<>> /\ scan_pc' = "returned"
  /\ UNCHANGED <<sending, peripherals, tried_names, lookups, connects, scan_calls>>

\* One pass of the body of `for p in central.peripherals()`; find_protocol
\* answers Some (known) or None, and connect() returns (connected) or panics
\* in an unwrap. The answers are drawn only where they are asked for.
ForPeripheral(known, connected) ==
  /\ scan_pc = "for"
  /\ todo # <<>>
  /\ todo' = Tail(todo)
  /\ LET p == peripherals[Head(todo)]
         tries == /\ p # NoPeripheral
                  /\ p.name.some
                  /\ untried(p.name.v, tried_names) IN
     /\ tried_names' = IF tries THEN Append(tried_names, p.name.v) ELSE tried_names
     /\ lookups' = IF tries THEN Append(lookups, p.name.v) ELSE lookups
     /\ connects' = IF tries /\ known THEN Append(connects, p.name.v) ELSE connects
     /\ scan_pc' = IF tries /\ known /\ ~connected THEN "panicked"
                   ELSE IF Tail(todo) = <<>> THEN "recv"
                   ELSE "for"
     /\ (~tries => (known /\ connected))
     /\ ((tries /\ ~known) => connected)
  /\ UNCHANGED <<sending, chan, peripherals, scan_calls>>

\* stop_scanning(): returns Ok(()) and does nothing else.
stop_scanning(position) == [result |-> "Ok", position |-> position]

\* is_scanning(): false, whatever the position of the loop.
is_scanning(position) == "false"

\* stop_scanning is called while the loop of start_scanning is where it is.
StopScanning ==
  /\ scan_calls.stop_scanning = "none"
  /\ scan_calls' = [scan_calls EXCEPT !.stop_scanning = stop_scanning(scan_pc).result,
                                      !.stop_lookups = Len(lookups)]
  /\ scan_pc' = stop_scanning(scan_pc).position
  /\ UNCHANGED <<sending, chan, peripherals, todo, tried_names, lookups, connects>>

\* is_scanning is called.
IsScanning ==
  /\ scan_calls.is_scanning = "none"
  /\ scan_calls' = [scan_calls EXCEPT !.is_scanning = is_scanning(scan_pc),
                                      !.asked_at = scan_pc]
  /\ UNCHANGED <<scan_pc, sending, chan, peripherals, todo, tried_names, lookups,
                 connects>>

NextScan ==
  \/ \E a \in Addrs, name \in LocalNames :
       DeviceDiscovered(a, name) /\ UNCHANGED <<protoVars, msgVars>>
  \/ \E a \in Addrs, p \in {NoPeripheral} \cup [present : {TRUE}, name : LocalNames] :
       OtherEvent(a, p) /\ UNCHANGED <<protoVars, msgVars>>
  \/ Send /\ UNCHANGED <<protoVars, msgVars>>
  \/ Receive /\ UNCHANGED <<protoVars, msgVars>>
  \/ StopScanning /\ UNCHANGED <<protoVars, msgVars>>
  \/ IsScanning /\ UNCHANGED <<protoVars, msgVars>>
  \/ \E known, connected \in BOOLEAN :
       ForPeripheral(known, connected) /\ UNCHANGED <<protoVars, msgVars>>

SpecScan == Init /\ [][NextScan]_vars

\* Whether a sequence holds no element twice.
NoDuplicates(seq) == \A i, j \in DOMAIN seq : i # j => seq[i] # seq[j]

\* Whether `longer` is `shorter` with elements appended.
Extends(longer, shorter) ==
  Len(longer) >= Len(shorter) /\ SubSeq(longer, 1, Len(shorter)) = shorter

\* C20: within one start_scanning call no name is passed to find_protocol
\* twice and no name is connected to twice; a name is looked up or connected
\* only in the step that handles a peripheral carrying that non-empty name;
\* tried_names only grows and holds no name twice.
C20_TriedOnce ==
  [][/\ NoDuplicates(lookups') /\ NoDuplicates(connects')
     /\ NoDuplicates(tried_names')
     /\ Extends(tried_names', tried_names)
     /\ Extends(lookups', lookups) /\ Len(lookups') <= Len(lookups) + 1
     /\ Extends(connects', connects) /\ Len(connects') <= Len(connects) + 1
     /\ \A i \in DOMAIN lookups' : Len(lookups'[i]) > 0
     /\ \A i \in DOMAIN connects' : connects'[i] \in Range(lookups')
     /\ lookups' # lookups =>
          /\ scan_pc = "for"
          /\ peripherals[Head(todo)] # NoPeripheral
          /\ peripherals[Head(todo)].name.some
          /\ peripherals[Head(todo)].name.v # ""
          /\ lookups'[Len(lookups')] = peripherals[Head(todo)].name.v
          /\ lookups'[Len(lookups')] \notin Range(lookups)
     /\ connects' # connects =>
          /\ lookups' # lookups
          /\ connects'[Len(connects')] = lookups'[Len(lookups')]]_vars

\* Two peripherals carry the same name, which has been looked up and
\* connected once, after a second name was tried; the list has been walked
\* to its end.
C20_Witness ==
  /\ scan_pc = "recv"
  /\ chan = <<>> /\ sending = 0
  /\ \A a \in Addrs : peripherals[a] = [present |-> TRUE, name |-> Some("x")]
  /\ tried_names = <<"y", "x">>
  /\ lookups = <<"y", "x">>
  /\ connects = <<"x">>

\* C21: start_scanning never returns Ok(()): the loop is never left by a
\* received false, since every value on the channel is true; a
\* stop_scanning call returns Ok and leaves the loop, the channel and the
\* pending sends as they are; is_scanning answers false at every position of
\* the loop.
C21_NoNormalExit ==
  [][/\ scan_pc' # "returned"
     /\ \A i \in DOMAIN chan' : chan'[i] = TRUE
     /\ is_scanning(scan_pc') = "false"
     /\ scan_calls'.is_scanning \in {"none", "false"}
     /\ scan_calls'.stop_scanning # scan_calls.stop_scanning =>
          /\ scan_calls'.stop_scanning = "Ok"
          /\ UNCHANGED <<scan_pc, sending, chan, peripherals, todo, tried_names,
                         lookups, connects>>
     /\ (scan_pc = "recv" /\ scan_pc' # "recv") =>
          (chan # <<>> /\ Head(chan) /\ scan_pc' = "for")]_vars

\* is_scanning was asked inside the loop and answered false, and the loop
\* has looked a name up since stop_scanning returned Ok.
C21_Witness ==
  /\ scan_calls.stop_scanning = "Ok"
  /\ Len(lookups) > scan_calls.stop_lookups
  /\ scan_calls.is_scanning = "false"
  /\ scan_calls.asked_at = "for"
  /\ scan_pc = "for"
====
